---- MODULE Spec2Model ----
(***************************************************************************)
(* Model of the gitops_mcp tool functions (flux.py, cluster.py, apps.py,   *)
(* policy.py, server.py).  Every tool is a stateless request handler: it   *)
(* reads the cluster API and returns one text.  A behaviour is one         *)
(* invocation: the tool, its arguments and the API responses are chosen,   *)
(* the handler runs to completion and leaves its outcome in `result` and   *)
(* the resource kinds it asked the API for in `requests`.                  *)
(*                                                                         *)
(* Texts are modelled structurally: which message was produced, whether a  *)
(* table header was written, and the table rows as records of the row's    *)
(* columns.  A Python exception that leaves the handler is the outcome     *)
(* "raise".  Strings that the code takes apart (int(), str.title(),        *)
(* substring tests) are sequences of one-character strings.                *)
(***************************************************************************)
EXTENDS Integers, Sequences, FiniteSets, TLC

VARIABLES call, result, requests

vars == <<call, result, requests>>

----------------------------------------------------------------------------
(* Bounds of the model *)

\* objects in one list response of the API
MaxItems == 2
\* size of one list response of the API: an object counts as one, or as the
\* number of its conditions when it has more
MaxConds == 2
\* events in one namespace
MaxEvents == 3
\* largest timestamp of an event
MaxTs == 3

----------------------------------------------------------------------------
(* Sequences *)

Range(s) == {s[i] : i \in 1..Len(s)}

Min2(a, b) == IF a <= b THEN a ELSE b

\* Python's s[:n] for n >= 0
Prefix(s, n) == SubSeq(s, 1, Min2(n, Len(s)))

SeqsUpTo(S, n) == UNION {[1..k -> S] : k \in 0..n}

RECURSIVE Concat(_)
Concat(ss) == IF ss = <<>> THEN <<>> ELSE Head(ss) \o Concat(Tail(ss))

----------------------------------------------------------------------------
(* Characters and Python string methods *)

LowerLetters == <<"a", "b", "c", "d", "e", "f", "g", "h", "i", "j", "k", "l", "m",
                  "n", "o", "p", "q", "r", "s", "t", "u", "v", "w", "x", "y", "z">>

UpperLetters == <<"A", "B", "C", "D", "E", "F", "G", "H", "I", "J", "K", "L", "M",
                  "N", "O", "P", "Q", "R", "S", "T", "U", "V", "W", "X", "Y", "Z">>

Digits == <<"0", "1", "2", "3", "4", "5", "6", "7", "8", "9">>

IndexOf(c, s) == IF \E i \in 1..Len(s) : s[i] = c
                 THEN CHOOSE i \in 1..Len(s) : s[i] = c
                 ELSE 0

IsLower(c) == IndexOf(c, LowerLetters) # 0
IsUpper(c) == IndexOf(c, UpperLetters) # 0
IsCased(c) == IsLower(c) \/ IsUpper(c)
IsDigit(c) == IndexOf(c, Digits) # 0

ToUpper(c) == IF IsLower(c) THEN UpperLetters[IndexOf(c, LowerLetters)] ELSE c
ToLower(c) == IF IsUpper(c) THEN LowerLetters[IndexOf(c, UpperLetters)] ELSE c

\* str.lower()
lower(s) == [i \in 1..Len(s) |-> ToLower(s[i])]

\* sub in s
Contains(sub, s) ==
    \E i \in 0..(Len(s) - Len(sub)) : SubSeq(s, i + 1, i + Len(sub)) = sub

----------------------------------------------------------------------------
(* Results of a tool invocation *)

NoSummary == <<>>

\* the text a tool returns: `out` names the message or report, `header` tells
\* whether a table header line was written, `rows` are the table's body rows,
\* `summary` the numbers printed outside the rows, `hints` the lines printed
\* after the table
Text(out, header, rows, summary, hints) ==
    [out |-> out, header |-> header, rows |-> rows, summary |-> summary,
     hints |-> hints, exc |-> "none"]

ErrorText == Text("error", FALSE, <<>>, NoSummary, <<>>)

EmptyText == Text("empty", FALSE, <<>>, NoSummary, <<>>)

Table(rows) == Text("report", TRUE, rows, NoSummary, <<>>)

\* an exception that leaves the tool function
Raised(exc) ==
    [out |-> "raise", header |-> FALSE, rows |-> <<>>, summary |-> NoSummary,
     hints |-> <<>>, exc |-> exc]

NoResult ==
    [out |-> "none", header |-> FALSE, rows |-> <<>>, summary |-> NoSummary,
     hints |-> <<>>, exc |-> "none"]

----------------------------------------------------------------------------
(* Resource objects of the dynamic client *)

Namespaces == {"n1", "n2"}

\* the optional namespace argument: "" is None
NamespaceArgs == {"", "n1"}

Chars_Ready == <<"R", "e", "a", "d", "y">>
Chars_Failed == <<"F", "a", "i", "l", "e", "d">>
Chars_Suspended == <<"S", "u", "s", "p", "e", "n", "d", "e", "d">>
Chars_all == <<"a", "l", "l">>
Chars_ready == <<"r", "e", "a", "d", "y">>
Chars_suspended == <<"s", "u", "s", "p", "e", "n", "d", "e", "d">>

StatusChars(status) ==
    CASE status = "Ready" -> Chars_Ready
      [] status = "Failed" -> Chars_Failed
      [] status = "Suspended" -> Chars_Suspended

\* one entry of status.conditions
Cond(type, status, reason) == [type |-> type, status |-> status, reason |-> reason]

\* k.get("status", {}).get("conditions", [])
Conditions(o) == IF o.hasStatus /\ o.hasConds THEN o.conds ELSE <<>>

\* k.get("spec", {}).get("suspend", False)
Suspend(o) == IF o.hasSpec /\ o.suspend # "absent" THEN o.suspend = "true" ELSE FALSE

\* c["type"] == "Ready" and c["status"] == "True"
IsReadyCond(c) == c.type = "Ready" /\ c.status = "True"

\* a variant that looks at the first condition only
IsReadyFirstOnly(conditions) == conditions # <<>> /\ IsReadyCond(conditions[1])

\* any(... for c in conditions)
IsReady(conditions) == \E i \in 1..Len(conditions) : IsReadyCond(conditions[i])

\* the if/elif/else of list_kustomizations, get_helmreleases and get_gitops_status
SuspendAwareStatus(o) ==
    IF Suspend(o) THEN "Suspended"
    ELSE IF IsReady(Conditions(o)) THEN "Ready"
    ELSE "Failed"

\* status = "Ready" if is_ready else "Failed"   (list_gitrepositories)
GitRepositoryStatus(o) == IF IsReady(Conditions(o)) THEN "Ready" ELSE "Failed"

\* status_filter != "all" and status.lower() != status_filter.lower()
FilteredOut(status, status_filter) ==
    status_filter # Chars_all /\ lower(StatusChars(status)) # lower(status_filter)

FluxRow(o, status) == [name |-> o.name, ns |-> o.ns, status |-> status]

\* the row loop of list_kustomizations and get_helmreleases
SuspendAwareRows(items, status_filter) ==
    SelectSeq([i \in 1..Len(items) |-> FluxRow(items[i], SuspendAwareStatus(items[i]))],
              LAMBDA r : ~FilteredOut(r.status, status_filter))

\* the row loop of list_gitrepositories
GitRepositoryRows(items) ==
    [i \in 1..Len(items) |-> FluxRow(items[i], GitRepositoryStatus(items[i]))]

\* a variant that counts Ready and Failed without looking at suspend
CountStatusIgnoringSuspend(items, status) ==
    Cardinality({i \in 1..Len(items) :
                   IF status = "Suspended" THEN Suspend(items[i])
                   ELSE GitRepositoryStatus(items[i]) = status})

CountStatus(items, status) ==
    Cardinality({i \in 1..Len(items) : SuspendAwareStatus(items[i]) = status})

----------------------------------------------------------------------------
(* flux.py *)

\* api = [ok, items]: ok is FALSE when resources.get or the list call raises
get_gitops_status(api) ==
    IF ~api.ok THEN ErrorText
    ELSE LET ready == CountStatus(api.items, "Ready")
             failed == CountStatus(api.items, "Failed")
             suspended == CountStatus(api.items, "Suspended")
             total == ready + failed + suspended
         IN Text("report", TRUE,
                 <<[name |-> "Kustomizations", ns |-> "", status |-> ""]>>,
                 <<ready, failed, suspended, total>>,
                 <<IF failed = 0 THEN "Healthy" ELSE "Issues Detected">>)

list_kustomizations(api, status_filter) ==
    IF ~api.ok THEN ErrorText
    ELSE LET rows == SuspendAwareRows(api.items, status_filter)
         IN IF rows = <<>> THEN EmptyText ELSE Table(rows)

list_gitrepositories(api) ==
    IF ~api.ok THEN ErrorText
    ELSE LET rows == GitRepositoryRows(api.items)
         IN IF rows = <<>> THEN EmptyText ELSE Table(rows)

get_helmreleases(api, status_filter) ==
    IF ~api.ok THEN ErrorText
    ELSE LET rows == SuspendAwareRows(api.items, status_filter)
         IN IF rows = <<>> THEN EmptyText ELSE Table(rows)

CondRow(c) == [type |-> c.type, status |-> c.status, reason |-> c.reason]

CondRows(conditions) == [i \in 1..Len(conditions) |-> CondRow(conditions[i])]

\* api = [ok, obj]: ok is FALSE when the lookup or the get of the named object raises
get_kustomization(api) ==
    IF ~api.ok THEN ErrorText
    ELSE Text("report", TRUE, CondRows(Conditions(api.obj)), NoSummary, <<>>)

Chars_Source == <<"S", "o", "u", "r", "c", "e">>
Chars_Validation == <<"V", "a", "l", "i", "d", "a", "t", "i", "o", "n">>
Chars_Health == <<"H", "e", "a", "l", "t", "h">>

\* a variant with an elif chain: only the first matching substring gives a line
HintsFirstMatch(c) ==
    IF c.status = "False" /\ c.type = "Ready"
    THEN (IF Contains(Chars_Source, c.reason) THEN <<"source">>
          ELSE IF Contains(Chars_Validation, c.reason) THEN <<"manifest">>
          ELSE IF Contains(Chars_Health, c.reason) THEN <<"health">>
          ELSE <<>>)
    ELSE <<>>

\* the hint lines one condition appends
Hints(c) ==
    IF c.status = "False" /\ c.type = "Ready"
    THEN (IF Contains(Chars_Source, c.reason) THEN <<"source">> ELSE <<>>)
         \o (IF Contains(Chars_Validation, c.reason) THEN <<"manifest">> ELSE <<>>)
         \o (IF Contains(Chars_Health, c.reason) THEN <<"health">> ELSE <<>>)
    ELSE <<>>

Recommendations(conditions) ==
    Concat([i \in 1..Len(conditions) |-> Hints(conditions[i])])

Chars_kustomization == <<"k", "u", "s", "t", "o", "m", "i", "z", "a", "t", "i", "o", "n">>
Chars_gitrepository == <<"g", "i", "t", "r", "e", "p", "o", "s", "i", "t", "o", "r", "y">>
Chars_helmrelease == <<"h", "e", "l", "m", "r", "e", "l", "e", "a", "s", "e">>

api_map == {Chars_kustomization, Chars_gitrepository, Chars_helmrelease}

\* a variant that looks the resource up before it checks resource_type
debug_reconciliation_lookup_first(resource_type, api) ==
    IF ~api.ok THEN ErrorText
    ELSE IF lower(resource_type) \notin api_map
    THEN Text("unknown_type", FALSE, <<>>, NoSummary, <<>>)
    ELSE Text("report", TRUE, CondRows(Conditions(api.obj)), NoSummary,
              Recommendations(Conditions(api.obj)))

debug_reconciliation(resource_type, api) ==
    IF lower(resource_type) \notin api_map THEN Text("unknown_type", FALSE, <<>>, NoSummary, <<>>)
    ELSE IF ~api.ok THEN ErrorText
    ELSE Text("report", TRUE, CondRows(Conditions(api.obj)), NoSummary,
              Recommendations(Conditions(api.obj)))

----------------------------------------------------------------------------
(* cluster.py *)

\* c.get("status", {}).get("phase", "Unknown")
Phase(o) == IF o.hasStatus /\ o.phase # "absent" THEN o.phase ELSE "Unknown"

\* "ok" if Provisioned, "pending" if Provisioning, else "error"
StatusIcon(phase) ==
    IF phase = "Provisioned" THEN "ok"
    ELSE IF phase = "Provisioning" THEN "pending"
    ELSE "error"

ClusterRow(c) ==
    [icon |-> StatusIcon(Phase(c)), name |-> c.name, ns |-> c.ns, phase |-> Phase(c)]

\* cluster_name = "" is None: `if cluster_name and c.metadata.name != cluster_name`
get_cluster_status(cluster_name, api) ==
    IF ~api.ok THEN ErrorText
    ELSE LET kept == SelectSeq(api.items,
                               LAMBDA c : ~(cluster_name # "" /\ c.name # cluster_name))
             rows == [i \in 1..Len(kept) |-> ClusterRow(kept[i])]
         IN IF rows = <<>> THEN EmptyText ELSE Table(rows)

\* m.metadata.labels.get("cluster.x-k8s.io/cluster-name", ""); the machine has
\* labels here (without them m.metadata.labels is None)
MachineCluster(m) == IF m.label = "absent" THEN "" ELSE m.label

MachineRow(m) ==
    [name |-> m.name, ns |-> m.ns, cluster |-> MachineCluster(m), phase |-> Phase(m)]

\* m.metadata.labels is None for a machine without labels, and None.get raises
\* AttributeError in the loop, outside every try
list_machines(cluster_name, api) ==
    IF ~api.ok THEN ErrorText
    ELSE IF \E i \in 1..Len(api.items) : ~api.items[i].hasLabels
    THEN Raised("AttributeError")
    ELSE LET kept == SelectSeq(api.items,
                               LAMBDA m : ~(cluster_name # "" /\ MachineCluster(m) # cluster_name))
             rows == [i \in 1..Len(kept) |-> MachineRow(kept[i])]
         IN IF rows = <<>> THEN EmptyText ELSE Table(rows)

\* e.last_timestamp or e.event_time or "": 0 stands for None and for ""
SortKey(e) == IF e.last # 0 THEN e.last ELSE e.etime

\* sorted() compares a datetime with "" as soon as both kinds of key occur, and
\* that comparison raises TypeError
MixedKeys(events) ==
    /\ \E i \in 1..Len(events) : SortKey(events[i]) = 0
    /\ \E i \in 1..Len(events) : SortKey(events[i]) # 0

\* insert e after the elements whose key is >= its own (stable, descending)
RECURSIVE InsertDesc(_, _)
InsertDesc(e, sorted) ==
    IF sorted = <<>> THEN <<e>>
    ELSE IF SortKey(Head(sorted)) >= SortKey(e)
         THEN <<Head(sorted)>> \o InsertDesc(e, Tail(sorted))
         ELSE <<e>> \o sorted

\* sorted(events.items, key=..., reverse=True): stable, equal keys keep their order
RECURSIVE SortedEvents(_)
SortedEvents(events) ==
    IF events = <<>> THEN <<>>
    ELSE InsertDesc(events[Len(events)], SortedEvents(SubSeq(events, 1, Len(events) - 1)))

DigitsValue(s) ==
    LET RECURSIVE Val(_)
        Val(k) == IF k = 0 THEN 0 ELSE 10 * Val(k - 1) + (IndexOf(s[k], Digits) - 1)
    IN Val(Len(s))

AllDigits(s) == s # <<>> /\ \A i \in 1..Len(s) : IsDigit(s[i])

\* int(s) for a string without blanks and underscores: an optional sign and
\* decimal digits, ValueError otherwise
ParseInt(s) ==
    IF s # <<>> /\ s[1] \in {"+", "-"}
    THEN IF AllDigits(Tail(s))
         THEN [ok |-> TRUE, val |-> IF s[1] = "-" THEN 0 - DigitsValue(Tail(s))
                                                  ELSE DigitsValue(Tail(s))]
         ELSE [ok |-> FALSE, val |-> 0]
    ELSE IF AllDigits(s) THEN [ok |-> TRUE, val |-> DigitsValue(s)]
         ELSE [ok |-> FALSE, val |-> 0]

\* the resource-name and event-type filters of the loop
PassesFilters(e, resource_name, event_type) ==
    /\ ~(resource_name # "" /\ e.name # resource_name)
    /\ ~(event_type # "all" /\ e.type # event_type)

EventRow(e) ==
    [icon |-> IF e.type = "Warning" THEN "warning" ELSE "info",
     name |-> e.name, reason |-> e.reason]

\* the loop over sorted_events: stop once count >= max_count, skip the events
\* the filters reject, append a row and count the others
RECURSIVE EventLoop(_, _, _, _, _)
EventLoop(events, count, max_count, resource_name, event_type) ==
    IF events = <<>> \/ count >= max_count THEN <<>>
    ELSE IF ~PassesFilters(Head(events), resource_name, event_type)
         THEN EventLoop(Tail(events), count, max_count, resource_name, event_type)
         ELSE <<EventRow(Head(events))>>
              \o EventLoop(Tail(events), count + 1, max_count, resource_name, event_type)

\* api = [ok, items]; int(limit) runs after the sort and outside the try
get_events(resource_name, event_type, limit, api) ==
    IF ~api.ok THEN ErrorText
    ELSE IF MixedKeys(api.items) THEN Raised("TypeError")
    ELSE IF ~ParseInt(limit).ok THEN Raised("ValueError")
    ELSE LET rows == EventLoop(SortedEvents(api.items), 0, ParseInt(limit).val,
                               resource_name, event_type)
         IN IF rows = <<>> THEN EmptyText ELSE Table(rows)

\* int(tail_lines) is evaluated inside the try, with the API call
get_pod_logs(tail_lines, api) ==
    IF ~ParseInt(tail_lines).ok \/ ~api.ok THEN ErrorText
    ELSE Text("logs", FALSE, <<>>, NoSummary, <<>>)

----------------------------------------------------------------------------
(* apps.py *)

AppRow(type, app) ==
    [type |-> type, name |-> app.name, ns |-> app.ns,
     status |-> IF IsReady(Conditions(app)) THEN "Ready" ELSE "Not Ready"]

\* one try block: nothing is appended when the lookup or the list raises
AppResults(type, app_name, api) ==
    IF ~api.ok THEN <<>>
    ELSE LET kept == SelectSeq(api.items,
                               LAMBDA app : ~(app_name # "" /\ app.name # app_name))
         IN [i \in 1..Len(kept) |-> AppRow(type, kept[i])]

\* a variant with one try block around both lookups
get_app_deployments_one_try(app_name, appApi, clusterAppApi) ==
    LET results == IF ~appApi.ok THEN <<>>
                   ELSE AppResults("App", app_name, appApi)
                        \o AppResults("ClusterApp", app_name, clusterAppApi)
    IN IF results = <<>> THEN EmptyText ELSE Table(results)

get_app_deployments(app_name, appApi, clusterAppApi) ==
    LET results == AppResults("App", app_name, appApi)
                   \o AppResults("ClusterApp", app_name, clusterAppApi)
    IN IF results = <<>> THEN EmptyText ELSE Table(results)

----------------------------------------------------------------------------
(* policy.py *)

\* str.title(): a cased character is upper-cased when the character before it
\* is not cased and lower-cased otherwise; other characters are kept
title(s) ==
    [i \in 1..Len(s) |->
        IF ~IsCased(s[i]) THEN s[i]
        ELSE IF i > 1 /\ IsCased(s[i - 1]) THEN ToLower(s[i])
        ELSE ToUpper(s[i])]

\* str.replace("-", "")
RemoveHyphens(s) == SelectSeq(s, LAMBDA c : c # "-")

\* names of constraint templates
Chars_unique_labels == <<"u", "n", "i", "q", "u", "e", "-", "l", "a", "b", "e", "l", "s">>
Chars_k8s_allowed_repos ==
    <<"k", "8", "s", "-", "a", "l", "l", "o", "w", "e", "d", "-", "r", "e", "p", "o", "s">>
Chars_k8s_required_labels ==
    <<"k", "8", "s", "-", "r", "e", "q", "u", "i", "r", "e", "d", "-", "l", "a", "b", "e", "l", "s">>

TemplateNames == {Chars_unique_labels, Chars_k8s_allowed_repos, Chars_k8s_required_labels}

\* kind.title().replace("-", "") of the names above, computed once
KindOfTemplate == [name \in TemplateNames |-> RemoveHyphens(title(name))]

\* kind.title().replace("-", "")
ConstraintKind(name) ==
    IF name \in TemplateNames THEN KindOfTemplate[name] ELSE RemoveHyphens(title(name))

\* dyn_client.resources.get(kind=...) followed by .get().items: the entry of
\* the registered constraint kinds, ok FALSE when either call raises
LookupKind(kinds, kind) ==
    IF \E i \in 1..Len(kinds) : kinds[i].kind = kind /\ kinds[i].ok
    THEN [ok |-> TRUE,
          items |-> kinds[CHOOSE i \in 1..Len(kinds) : kinds[i].kind = kind /\ kinds[i].ok].items]
    ELSE [ok |-> FALSE, items |-> <<>>]

\* constraint.get("status", {}).get("totalViolations", 0): -1 stands for absent
TotalViolations(c) == IF c.total = -1 THEN 0 ELSE c.total

\* v.get("namespace") is None when the entry has no namespace ("")
GatekeeperViolation(constraint, v) ==
    [engine |-> "Gatekeeper", policy |-> constraint.name, resource |-> v.name, ns |-> v.ns]

ConstraintViolations(constraint, namespace) ==
    IF TotalViolations(constraint) > 0
    THEN LET kept == SelectSeq(constraint.violations,
                               LAMBDA v : ~(namespace # "" /\ v.ns # namespace))
         IN [i \in 1..Len(kept) |-> GatekeeperViolation(constraint, kept[i])]
    ELSE <<>>

\* the inner try of one template: a failed lookup or list skips the template
TemplateViolations(template, kinds, namespace) ==
    LET api == LookupKind(kinds, ConstraintKind(template))
    IN IF ~api.ok THEN <<>>
       ELSE Concat([i \in 1..Len(api.items) |-> ConstraintViolations(api.items[i], namespace)])

\* a variant without the inner try: the first failed lookup ends the loop
check_gatekeeper_violations_one_try(namespace, gk) ==
    IF ~gk.ok THEN <<>>
    ELSE LET failing == {i \in 1..Len(gk.templates) :
                           ~LookupKind(gk.kinds, ConstraintKind(gk.templates[i])).ok}
             n == IF failing = {} THEN Len(gk.templates)
                  ELSE (CHOOSE i \in failing : \A j \in failing : i <= j) - 1
         IN Concat([i \in 1..n |-> TemplateViolations(gk.templates[i], gk.kinds, namespace)])

\* gk = [ok, templates, kinds]: ok is FALSE when ConstraintTemplate cannot be listed
check_gatekeeper_violations(namespace, gk) ==
    IF ~gk.ok THEN <<>>
    ELSE Concat([i \in 1..Len(gk.templates) |->
                    TemplateViolations(gk.templates[i], gk.kinds, namespace)])

KyvernoViolation(r) ==
    [engine |-> "Kyverno", policy |-> r.policy, resource |-> r.resource, ns |-> r.ns]

\* the flattened result entries of a list of reports, in order
ReportResults(reports) == Concat([i \in 1..Len(reports) |-> reports[i].results])

\* the loops of one try block: "fail" entries are appended one by one;
\* r.get('resources', [{}])[0] raises IndexError on an entry whose resources
\* list is empty, which ends the block with the violations appended so far
RECURSIVE FailedResults(_)
FailedResults(results) ==
    IF results = <<>> THEN <<>>
    ELSE IF Head(results).result # "fail" THEN FailedResults(Tail(results))
    ELSE IF Head(results).resource = "empty" THEN <<>>
    ELSE <<KyvernoViolation(Head(results))>> \o FailedResults(Tail(results))

\* pr_api.get(namespace=namespace): the API server returns the reports of that
\* namespace, all reports without one
ListNamespaced(reports, namespace) ==
    SelectSeq(reports, LAMBDA r : namespace = "" \/ r.ns = namespace)

\* kv = [cprOk, cpr, prOk, pr]
check_kyverno_violations(namespace, kv) ==
    (IF kv.cprOk THEN FailedResults(ReportResults(kv.cpr)) ELSE <<>>)
    \o (IF kv.prOk THEN FailedResults(ReportResults(ListNamespaced(kv.pr, namespace)))
        ELSE <<>>)

\* a variant that checks Kyverno whatever engine is selected
check_policy_violations_always_kyverno(namespace, policy_engine, gk, kv) ==
    LET violations ==
            (IF policy_engine \in {"gatekeeper", "both"}
             THEN check_gatekeeper_violations(namespace, gk) ELSE <<>>)
            \o check_kyverno_violations(namespace, kv)
    IN IF violations = <<>> THEN Text("no_violations", FALSE, <<>>, NoSummary, <<>>)
       ELSE Text("report", TRUE, violations, <<Len(violations)>>, <<>>)

check_policy_violations(namespace, policy_engine, gk, kv) ==
    LET violations ==
            (IF policy_engine \in {"gatekeeper", "both"}
             THEN check_gatekeeper_violations(namespace, gk) ELSE <<>>)
            \o (IF policy_engine \in {"kyverno", "both"}
                THEN check_kyverno_violations(namespace, kv) ELSE <<>>)
    IN IF violations = <<>> THEN Text("no_violations", FALSE, <<>>, NoSummary, <<>>)
       ELSE Text("report", TRUE, violations, <<Len(violations)>>, <<>>)

ConstraintRow(template, c) ==
    [kind |-> template, name |-> c.name, violations |-> TotalViolations(c)]

TemplateConstraints(template, kinds) ==
    LET api == LookupKind(kinds, ConstraintKind(template))
    IN IF ~api.ok THEN <<>>
       ELSE [i \in 1..Len(api.items) |-> ConstraintRow(template, api.items[i])]

\* constraint_kind = <<>> is None
list_constraints(constraint_kind, gk) ==
    IF ~gk.ok THEN ErrorText
    ELSE LET kept == SelectSeq(gk.templates,
                               LAMBDA t : ~(constraint_kind # <<>>
                                            /\ lower(t) # lower(constraint_kind)))
             rows == Concat([i \in 1..Len(kept) |-> TemplateConstraints(kept[i], gk.kinds)])
         IN IF rows = <<>> THEN EmptyText ELSE Table(rows)

----------------------------------------------------------------------------
(* server.py *)

\* kc = [ok, contexts, active]: ok is FALSE when the kubeconfig cannot be loaded
list_contexts(kc) ==
    IF ~kc.ok THEN ErrorText
    ELSE Table([i \in 1..Len(kc.contexts) |->
                   [name |-> kc.contexts[i], current |-> (kc.contexts[i] = kc.active)]])

get_current_context(kc) ==
    IF ~kc.ok THEN ErrorText
    ELSE Text("context", FALSE, <<>>, NoSummary, <<kc.active>>)

----------------------------------------------------------------------------
(* The resource kinds a tool asks the API for, in order *)

Request(kind) == [kind |-> kind, of |-> <<>>]

\* the lookup of the constraint kind computed from a template's name
ConstraintRequest(template) == [kind |-> "Constraint", of |-> ConstraintKind(template)]

debug_reconciliation_requests(resource_type) ==
    IF lower(resource_type) \notin api_map THEN <<>>
    ELSE IF lower(resource_type) = Chars_kustomization THEN <<Request("Kustomization")>>
    ELSE IF lower(resource_type) = Chars_gitrepository THEN <<Request("GitRepository")>>
    ELSE <<Request("HelmRelease")>>

gatekeeper_requests(gk) ==
    <<Request("ConstraintTemplate")>>
    \o (IF gk.ok THEN [i \in 1..Len(gk.templates) |-> ConstraintRequest(gk.templates[i])]
        ELSE <<>>)

kyverno_requests == <<Request("ClusterPolicyReport"), Request("PolicyReport")>>

check_policy_violations_requests(policy_engine, gk) ==
    (IF policy_engine \in {"gatekeeper", "both"} THEN gatekeeper_requests(gk) ELSE <<>>)
    \o (IF policy_engine \in {"kyverno", "both"} THEN kyverno_requests ELSE <<>>)

list_constraints_requests(constraint_kind, gk) ==
    <<Request("ConstraintTemplate")>>
    \o (IF gk.ok
        THEN LET kept == SelectSeq(gk.templates,
                                   LAMBDA t : ~(constraint_kind # <<>>
                                                /\ lower(t) # lower(constraint_kind)))
             IN [i \in 1..Len(kept) |-> ConstraintRequest(kept[i])]
        ELSE <<>>)

----------------------------------------------------------------------------
(* Inputs: the arguments of a call and what the API server answers *)

CondVals == {Cond("Ready", "True", <<>>), Cond("Ready", "False", <<>>),
             Cond("Healthy", "True", <<>>)}

SpecForms == {[hasSpec |-> FALSE, suspend |-> "absent"],
              [hasSpec |-> TRUE, suspend |-> "absent"],
              [hasSpec |-> TRUE, suspend |-> "false"],
              [hasSpec |-> TRUE, suspend |-> "true"]}

NoSpecForms == {[hasSpec |-> FALSE, suspend |-> "absent"]}

\* the status subtrees with exactly k conditions, over the condition values C
StatusForms(k, C) ==
    IF k = 0
    THEN {[hasStatus |-> FALSE, hasConds |-> FALSE, conds |-> <<>>],
          [hasStatus |-> TRUE, hasConds |-> FALSE, conds |-> <<>>],
          [hasStatus |-> TRUE, hasConds |-> TRUE, conds |-> <<>>]}
    ELSE {[hasStatus |-> TRUE, hasConds |-> TRUE, conds |-> cs] : cs \in [1..k -> C]}

Body(sp, st) ==
    [name |-> "", ns |-> "", hasSpec |-> sp.hasSpec, suspend |-> sp.suspend,
     hasStatus |-> st.hasStatus, hasConds |-> st.hasConds, conds |-> st.conds]

Bodies(k, S, C) == {Body(sp, st) : sp \in S, st \in StatusForms(k, C)}

\* the lists of at most n objects of size at most c together, where an object
\* counts as one, or as the number of its conditions when it has more
RECURSIVE Responses(_, _, _, _)
Responses(n, c, S, C) ==
    IF n = 0 \/ c = 0 THEN {<<>>}
    ELSE {<<>>} \cup UNION {LET first == Bodies(k, S, C)
                                 rest == Responses(n - 1, IF k = 0 THEN c - 1 ELSE c - k, S, C)
                             IN {<<o>> \o r : o \in first, r \in rest} : k \in 0..c}

ItemNames == <<"o1", "o2", "o3", "o4">>

\* names are unique; a list of one namespace holds objects of that namespace,
\* a cluster-wide list objects of several
Place(bodies, namespace) ==
    [i \in 1..Len(bodies) |->
        [bodies[i] EXCEPT !.name = ItemNames[i],
                          !.ns = IF namespace # "" THEN namespace
                                 ELSE IF i % 2 = 1 THEN "n1" ELSE "n2"]]

Failed == [ok |-> FALSE, items |-> <<>>]

Listed(items) == [ok |-> TRUE, items |-> items]

FluxApis(namespace) ==
    {Failed} \cup {Listed(Place(b, namespace)) :
                     b \in Responses(MaxItems, MaxConds, SpecForms, CondVals)}

StatusFilters == {Chars_all, Chars_ready, <<"F", "A", "I", "L", "E", "D">>, Chars_suspended}

Chars_ValidationFailed == Chars_Validation \o <<"F", "a", "i", "l", "e", "d">>
Chars_SourceHealth == Chars_Source \o Chars_Health

Reasons == {<<>>, Chars_ValidationFailed, Chars_SourceHealth}

DetailConds == {Cond(t, st, r) : t \in {"Ready", "Healthy"}, st \in {"True", "False"}, r \in Reasons}

DetailObjects(n) == UNION {Bodies(k, SpecForms, DetailConds) : k \in 0..n}

DetailApis(n) == {[ok |-> FALSE, obj |-> Body([hasSpec |-> FALSE, suspend |-> "absent"],
                                           [hasStatus |-> FALSE, hasConds |-> FALSE, conds |-> <<>>])]}
              \cup {[ok |-> TRUE, obj |-> o] : o \in DetailObjects(n)}

ResourceTypes == {Chars_kustomization,
                  <<"H", "e", "l", "m", "R", "e", "l", "e", "a", "s", "e">>,
                  <<"p", "o", "d">>}

ClusterNames == {"c1", "c2"}

\* the optional cluster_name argument: "" is None
ClusterNameArgs == {"", "c1"}

ClusterBodies ==
    {[name |-> "", ns |-> "", hasStatus |-> FALSE, phase |-> "absent"]}
    \cup {[name |-> "", ns |-> "", hasStatus |-> TRUE, phase |-> p] :
            p \in {"absent", "Provisioned", "Provisioning", "Deleting"}}

InNamespace(items, namespace) ==
    [i \in 1..Len(items) |->
        [items[i] EXCEPT !.ns = IF namespace # "" THEN namespace
                                ELSE IF i % 2 = 1 THEN "n1" ELSE "n2"]]

ClusterApis(namespace) ==
    {Failed} \cup {Listed(InNamespace(cs, namespace)) :
                     cs \in SeqsUpTo({[b EXCEPT !.name = n] : b \in ClusterBodies, n \in ClusterNames},
                                     MaxItems)}

\* hasLabels FALSE: metadata has no labels; label "absent": labels without the
\* cluster-name label
MachineBodies ==
    {[name |-> "", ns |-> "", hasLabels |-> l[1], label |-> l[2],
      hasStatus |-> st[1], phase |-> st[2]] :
        l \in {<<FALSE, "absent">>, <<TRUE, "absent">>, <<TRUE, "c1">>, <<TRUE, "c2">>},
        st \in {<<FALSE, "absent">>, <<TRUE, "Running">>}}

MachineApis(namespace) ==
    {Failed} \cup {Listed(Place(ms, namespace)) : ms \in SeqsUpTo(MachineBodies, MaxItems)}

ResourceNames == {"a", "b"}

\* the optional resource_name / app_name argument: "" is None
ResourceNameArgs == {"", "a"}

\* last_timestamp and event_time of an event, 0 for None
EventTimes == {<<l, 0>> : l \in 0..MaxTs} \cup {<<0, MaxTs - 1>>}

EventBodies ==
    {[reason |-> "", last |-> t[1], etime |-> t[2], name |-> k[1], type |-> k[2]] :
        t \in EventTimes,
        k \in {<<"a", "Normal">>, <<"a", "Warning">>, <<"b", "Warning">>}}

\* the reason of an event identifies it in the rows
Reasoned(events) == [i \in 1..Len(events) |-> [events[i] EXCEPT !.reason = ItemNames[i]]]

EventApis(n) == {Failed} \cup {Listed(Reasoned(es)) : es \in SeqsUpTo(EventBodies, n)}

EventTypeArgs == {"all", "Warning"}

\* the numeric string parameters limit and tail_lines
NumberArgs == {<<"1">>, <<"2">>, <<"2", "0">>, <<"-", "1">>, <<"a", "b", "c">>}

\* the App and ClusterApp lists: a list of at most MaxItems objects cut in two
AppLists(n, c) ==
    UNION {{<<SubSeq(r, 1, k), SubSeq(r, k + 1, Len(r))>> : k \in 0..Len(r)} :
             r \in Responses(n, c, NoSpecForms, CondVals)}

Named(items, names) == [i \in 1..Len(items) |-> [items[i] EXCEPT !.name = names[i]]]

AppApis(items, namespace) ==
    {Failed} \cup {Listed(InNamespace(Named(items, names), namespace)) :
                     names \in [1..Len(items) -> ResourceNames]}

KubeConfigs == {[ok |-> FALSE, contexts |-> <<>>, active |-> ""]}
               \cup {[ok |-> TRUE, contexts |-> cs, active |-> a] :
                       cs \in {<<"dev">>, <<"dev", "prod">>}, a \in {"dev"}}

\* the constraint templates of the cluster, in the orders the API lists them
TemplateLists == {<<>>, <<Chars_unique_labels>>, <<Chars_k8s_allowed_repos>>,
                  <<Chars_unique_labels, Chars_k8s_allowed_repos>>,
                  <<Chars_k8s_allowed_repos, Chars_unique_labels>>}

\* the hyphen-delimited segments of a name
RECURSIVE Segments(_)
Segments(s) ==
    IF \E i \in 1..Len(s) : s[i] = "-"
    THEN LET i == CHOOSE j \in 1..Len(s) : s[j] = "-" /\ \A m \in 1..(j - 1) : s[m] # "-"
         IN <<SubSeq(s, 1, i - 1)>> \o Segments(SubSeq(s, i + 1, Len(s)))
    ELSE <<s>>

\* the kind a template declares for its constraints: each segment of the
\* template's name with its first character in upper case
DeclaredKind(name) ==
    Concat([i \in 1..Len(Segments(name)) |->
              LET seg == Segments(name)[i]
              IN IF seg = <<>> THEN <<>> ELSE <<ToUpper(seg[1])>> \o Tail(seg)])

ViolationVals == {[name |-> "r1", ns |-> "n1"], [name |-> "r2", ns |-> "n2"]}

\* the constraints with exactly k embedded violation entries; total is
\* status.totalViolations, -1 when the field is absent
Constraints(k) ==
    {[name |-> "", total |-> t, violations |-> vs] :
        t \in {-1, 0, 5}, vs \in [1..k -> ViolationVals]}

KindEntries(k, kind) ==
    (IF k = 0 THEN {[kind |-> kind, ok |-> FALSE, items |-> <<>>],
                    [kind |-> kind, ok |-> TRUE, items |-> <<>>]}
     ELSE {})
    \cup {[kind |-> kind, ok |-> TRUE, items |-> <<c>>] : c \in Constraints(k)}

\* the registered constraint kinds of the templates, with at most b violation
\* entries together
RECURSIVE KindLists(_, _)
KindLists(templates, b) ==
    IF templates = <<>> THEN {<<>>}
    ELSE UNION {LET first == KindEntries(k, DeclaredKind(Head(templates)))
                    rest == KindLists(Tail(templates), b - k)
                IN {<<[e EXCEPT !.items = Named(e.items, <<ItemNames[Len(templates)]>>)]>> \o r :
                       e \in first, r \in rest} : k \in 0..b}

NoGatekeeper == [ok |-> FALSE, templates |-> <<>>, kinds |-> <<>>]

GatekeeperApis(b) ==
    {NoGatekeeper}
    \cup UNION {{[ok |-> TRUE, templates |-> ts, kinds |-> ks] : ks \in KindLists(ts, b)} :
                  ts \in TemplateLists}

\* the result entries of a policy report about resources of namespace ns
\* ("" for cluster-scoped resources); resource "empty" is an empty resources list
ResultVals(ns) ==
    {[result |-> "fail", policy |-> "p1", resource |-> "r1", ns |-> ns],
     [result |-> "pass", policy |-> "p2", resource |-> "r2", ns |-> ns],
     [result |-> "fail", policy |-> "p3", resource |-> "empty", ns |-> ns]}

\* the reports of the namespaces nss, one each, with at most b result entries together
RECURSIVE Reports(_, _)
Reports(nss, b) ==
    IF nss = <<>> THEN {<<>>}
    ELSE UNION {LET first == [1..k -> ResultVals(Head(nss))]
                    rest == Reports(Tail(nss), b - k)
                IN {<<[ns |-> Head(nss), results |-> rs]>> \o r :
                       rs \in first, r \in rest} : k \in 0..b}

KyvernoApis(b) ==
    UNION {{[cprOk |-> c[1], cpr |-> c[2], prOk |-> p[1], pr |-> p[2]] :
              c \in {<<FALSE, <<>>>>} \cup {<<TRUE, r>> : r \in Reports(<<"">>, k)},
              p \in {<<FALSE, <<>>>>} \cup {<<TRUE, r>> : r \in Reports(<<"n1", "n2">>, b - k)}} :
            k \in 0..b}

PolicyEngines == {"both", "gatekeeper", "kyverno", "opa"}

\* the optional constraint_kind argument: "" is None
ConstraintKindArgs == {<<>>, <<"U", "n", "i", "q", "u", "e", "-", "L", "a", "b", "e", "l", "s">>}

----------------------------------------------------------------------------
(* The tools as actions: one invocation, from the idle server *)

Idle == [tool |-> "idle"]

Init == call = Idle /\ result = NoResult /\ requests = <<>>

GetGitopsStatus ==
    /\ call = Idle
    /\ \E namespace \in NamespaceArgs : \E api \in FluxApis(namespace) :
         /\ call' = [tool |-> "get_gitops_status", namespace |-> namespace, api |-> api]
         /\ result' = get_gitops_status(api)
         /\ requests' = <<Request("Kustomization")>>

ListKustomizations ==
    /\ call = Idle
    /\ \E namespace \in NamespaceArgs : \E api \in FluxApis(namespace) :
       \E status_filter \in StatusFilters :
         /\ call' = [tool |-> "list_kustomizations", namespace |-> namespace,
                     status_filter |-> status_filter, api |-> api]
         /\ result' = list_kustomizations(api, status_filter)
         /\ requests' = <<Request("Kustomization")>>

GetKustomization ==
    /\ call = Idle
    /\ \E api \in DetailApis(MaxConds) :
         /\ call' = [tool |-> "get_kustomization", api |-> api]
         /\ result' = get_kustomization(api)
         /\ requests' = <<Request("Kustomization")>>

ListGitrepositories ==
    /\ call = Idle
    /\ \E namespace \in NamespaceArgs : \E api \in FluxApis(namespace) :
         /\ call' = [tool |-> "list_gitrepositories", namespace |-> namespace, api |-> api]
         /\ result' = list_gitrepositories(api)
         /\ requests' = <<Request("GitRepository")>>

GetHelmreleases ==
    /\ call = Idle
    /\ \E namespace \in NamespaceArgs : \E api \in FluxApis(namespace) :
       \E status_filter \in StatusFilters :
         /\ call' = [tool |-> "get_helmreleases", namespace |-> namespace,
                     status_filter |-> status_filter, api |-> api]
         /\ result' = get_helmreleases(api, status_filter)
         /\ requests' = <<Request("HelmRelease")>>

DebugReconciliation ==
    /\ call = Idle
    /\ \E api \in DetailApis(MaxConds), resource_type \in ResourceTypes :
         /\ call' = [tool |-> "debug_reconciliation", resource_type |-> resource_type,
                     api |-> api]
         /\ result' = debug_reconciliation(resource_type, api)
         /\ requests' = debug_reconciliation_requests(resource_type)

GetClusterStatus ==
    /\ call = Idle
    /\ \E namespace \in NamespaceArgs : \E api \in ClusterApis(namespace) :
       \E cluster_name \in ClusterNameArgs :
         /\ call' = [tool |-> "get_cluster_status", cluster_name |-> cluster_name,
                     namespace |-> namespace, api |-> api]
         /\ result' = get_cluster_status(cluster_name, api)
         /\ requests' = <<Request("Cluster")>>

ListMachines ==
    /\ call = Idle
    /\ \E namespace \in NamespaceArgs : \E api \in MachineApis(namespace) :
       \E cluster_name \in ClusterNameArgs :
         /\ call' = [tool |-> "list_machines", cluster_name |-> cluster_name,
                     namespace |-> namespace, api |-> api]
         /\ result' = list_machines(cluster_name, api)
         /\ requests' = <<Request("Machine")>>

GetEvents ==
    /\ call = Idle
    /\ \E api \in EventApis(MaxEvents), resource_name \in ResourceNameArgs,
          event_type \in EventTypeArgs, limit \in NumberArgs :
         /\ call' = [tool |-> "get_events", resource_name |-> resource_name,
                     event_type |-> event_type, limit |-> limit, api |-> api]
         /\ result' = get_events(resource_name, event_type, limit, api)
         /\ requests' = <<Request("Event")>>

GetPodLogs ==
    /\ call = Idle
    /\ \E tail_lines \in NumberArgs, ok \in BOOLEAN :
         /\ call' = [tool |-> "get_pod_logs", tail_lines |-> tail_lines,
                     api |-> [ok |-> ok]]
         /\ result' = get_pod_logs(tail_lines, [ok |-> ok])
         /\ requests' = IF ParseInt(tail_lines).ok THEN <<Request("PodLog")>> ELSE <<>>

GetAppDeployments ==
    /\ call = Idle
    /\ \E lists \in AppLists(MaxItems, MaxConds), workspace \in NamespaceArgs :
       \E appApi \in AppApis(lists[1], workspace), clusterAppApi \in AppApis(lists[2], "") :
       \E app_name \in ResourceNameArgs :
         /\ call' = [tool |-> "get_app_deployments", workspace |-> workspace,
                     app_name |-> app_name, appApi |-> appApi,
                     clusterAppApi |-> clusterAppApi]
         /\ result' = get_app_deployments(app_name, appApi, clusterAppApi)
         /\ requests' = <<Request("App"), Request("ClusterApp")>>

CheckPolicyViolations ==
    /\ call = Idle
    \* the two engines hold at most MaxItems violations and result entries together
    /\ \E k \in 0..MaxItems :
       LET gks == GatekeeperApis(k)
           kvs == KyvernoApis(MaxItems - k)
       IN
       \E gk \in gks, kv \in kvs,
          namespace \in NamespaceArgs, policy_engine \in PolicyEngines :
         /\ call' = [tool |-> "check_policy_violations", namespace |-> namespace,
                     policy_engine |-> policy_engine, gk |-> gk, kv |-> kv]
         /\ result' = check_policy_violations(namespace, policy_engine, gk, kv)
         /\ requests' = check_policy_violations_requests(policy_engine, gk)

ListConstraints ==
    /\ call = Idle
    /\ \E gk \in GatekeeperApis(MaxItems), constraint_kind \in ConstraintKindArgs :
         /\ call' = [tool |-> "list_constraints", constraint_kind |-> constraint_kind,
                     gk |-> gk]
         /\ result' = list_constraints(constraint_kind, gk)
         /\ requests' = list_constraints_requests(constraint_kind, gk)

ListContexts ==
    /\ call = Idle
    /\ \E kc \in KubeConfigs :
         /\ call' = [tool |-> "list_contexts", kc |-> kc]
         /\ result' = list_contexts(kc)
         /\ requests' = <<>>

GetCurrentContext ==
    /\ call = Idle
    /\ \E kc \in KubeConfigs :
         /\ call' = [tool |-> "get_current_context", kc |-> kc]
         /\ result' = get_current_context(kc)
         /\ requests' = <<>>

NextFlux ==
    \/ GetGitopsStatus
    \/ ListKustomizations
    \/ GetKustomization
    \/ ListGitrepositories
    \/ GetHelmreleases
    \/ DebugReconciliation

NextCluster ==
    \/ GetClusterStatus
    \/ ListMachines
    \/ GetEvents
    \/ GetPodLogs

NextApps == GetAppDeployments

NextPolicy ==
    \/ CheckPolicyViolations
    \/ ListConstraints

NextServer ==
    \/ ListContexts
    \/ GetCurrentContext

Next == NextFlux \/ NextCluster \/ NextApps \/ NextPolicy \/ NextServer

\* every tool of the server
Spec == Init /\ [][Next]_vars

\* the tools of one module
SpecFlux == Init /\ [][NextFlux]_vars
SpecCluster == Init /\ [][NextCluster]_vars
SpecApps == Init /\ [][NextApps]_vars
SpecPolicy == Init /\ [][NextPolicy]_vars

----------------------------------------------------------------------------
(* Properties of the Flux status derivation *)

FluxListTools == {"list_kustomizations", "list_gitrepositories", "get_helmreleases"}

\* spec.suspend is present and true
SuspendTrue(o) == o.hasSpec /\ o.suspend = "true"

\* some entry of status.conditions, at any position, is Ready=True
HasReadyTrue(o) ==
    /\ o.hasStatus
    /\ o.hasConds
    /\ \E i \in 1..Len(o.conds) : o.conds[i].type = "Ready" /\ o.conds[i].status = "True"

RowsOf(o) == {j \in 1..Len(result.rows) : result.rows[j].name = o.name}

ListedItems == IF call.api.ok THEN Range(call.api.items) ELSE {}

\* C1: every Flux object whose spec.suspend is true is shown as Suspended by
\* list_kustomizations, list_gitrepositories and get_helmreleases and counted
\* as Suspended by get_gitops_status, whatever its conditions are.
C1_SuspendedOverridesConditions ==
    /\ call.tool \in FluxListTools =>
         \A o \in ListedItems : SuspendTrue(o) =>
            \A j \in RowsOf(o) : result.rows[j].status = "Suspended"
    /\ (call.tool = "get_gitops_status" /\ call.api.ok) =>
         result.summary[3] = Cardinality({o \in ListedItems : SuspendTrue(o)})

\* what C1 says of the three functions that read spec.suspend
SuspendAwareToolsShowSuspended ==
    /\ call.tool \in {"list_kustomizations", "get_helmreleases"} =>
         \A o \in ListedItems : SuspendTrue(o) =>
            \A j \in RowsOf(o) : result.rows[j].status = "Suspended"
    /\ (call.tool = "get_gitops_status" /\ call.api.ok) =>
         result.summary[3] = Cardinality({o \in ListedItems : SuspendTrue(o)})

ReadyOrFailed(o) == IF HasReadyTrue(o) THEN "Ready" ELSE "Failed"

\* the status filter lets a status through
Selected(status, status_filter) ==
    \/ status_filter = Chars_all
    \/ lower(status_filter) = lower(StatusChars(status))

FilterOf == IF call.tool = "list_gitrepositories" THEN Chars_all ELSE call.status_filter

\* C2: an object whose spec.suspend is false or absent is Ready exactly when
\* some entry of status.conditions, at any position, is Ready=True, and Failed
\* otherwise, also without status, without conditions or with an empty list:
\* the list tools show it with that status (in one row when the status filter
\* selects that status, in none otherwise) and get_gitops_status counts it so.
C2_ReadyIffReadyTrueCondition ==
    /\ call.tool \in FluxListTools =>
         \A o \in ListedItems : ~SuspendTrue(o) =>
            /\ \A j \in RowsOf(o) : result.rows[j].status = ReadyOrFailed(o)
            /\ Cardinality(RowsOf(o)) = IF Selected(ReadyOrFailed(o), FilterOf) THEN 1 ELSE 0
    /\ (call.tool = "get_gitops_status" /\ call.api.ok) =>
         /\ result.summary[1] =
               Cardinality({o \in ListedItems : ~SuspendTrue(o) /\ HasReadyTrue(o)})
         /\ result.summary[2] =
               Cardinality({o \in ListedItems : ~SuspendTrue(o) /\ ~HasReadyTrue(o)})

\* an object without suspend whose second condition is the only Ready=True
\* one is listed as Ready, next to an object without status listed as Failed
C2_Witness ==
    /\ call.tool = "list_kustomizations"
    /\ call.api.ok
    /\ \E o \in ListedItems :
         /\ o.hasSpec /\ o.suspend = "absent"
         /\ Len(o.conds) = 2
         /\ ~(o.conds[1].type = "Ready" /\ o.conds[1].status = "True")
         /\ o.conds[2].type = "Ready" /\ o.conds[2].status = "True"
         /\ \E j \in RowsOf(o) : result.rows[j].status = "Ready"

----------------------------------------------------------------------------
(* Properties of the error handling *)

\* the cluster access of the call failed
AccessFailed ==
    \/ call.tool \in {"get_gitops_status", "list_kustomizations", "get_kustomization",
                      "list_gitrepositories", "get_helmreleases", "debug_reconciliation",
                      "get_cluster_status", "list_machines", "get_events", "get_pod_logs"}
       /\ ~call.api.ok
    \/ call.tool = "get_app_deployments" /\ (~call.appApi.ok \/ ~call.clusterAppApi.ok)
    \/ call.tool = "check_policy_violations"
       /\ (~call.gk.ok \/ ~call.kv.cprOk \/ ~call.kv.prOk
           \/ \E i \in 1..Len(call.gk.kinds) : ~call.gk.kinds[i].ok)
    \/ call.tool = "list_constraints"
       /\ (~call.gk.ok \/ \E i \in 1..Len(call.gk.kinds) : ~call.gk.kinds[i].ok)

\* a returned object has no status or no spec
LacksStatusOrSpec ==
    \/ call.tool \in FluxListTools \cup {"get_gitops_status"}
       /\ \E o \in ListedItems : ~o.hasStatus \/ ~o.hasSpec
    \/ call.tool \in {"get_kustomization", "debug_reconciliation"}
       /\ call.api.ok /\ (~call.api.obj.hasStatus \/ ~call.api.obj.hasSpec)
    \/ call.tool \in {"get_cluster_status", "list_machines"}
       /\ \E o \in ListedItems : ~o.hasStatus
    \/ call.tool = "get_app_deployments"
       /\ \E api \in {call.appApi, call.clusterAppApi} :
            \E i \in 1..Len(api.items) : ~api.items[i].hasStatus

\* C3: whenever the cluster access fails or a returned object lacks its
\* status or spec, the tool returns a text and raises nothing.
C3_NeverRaisesOnAccessFailureOrMissingSubfields ==
    (AccessFailed \/ LacksStatusOrSpec) => result.out # "raise"

\* what C3 says of the calls in which every listed Machine has labels
NeverRaisesWhenMachinesHaveLabels ==
    \/ (AccessFailed \/ LacksStatusOrSpec) => result.out # "raise"
    \/ call.tool = "list_machines" /\ \E o \in ListedItems : ~o.hasLabels

\* C4: get_events with an unparseable limit and get_pod_logs with an
\* unparseable tail_lines return an error text and raise nothing.
C4_UnparseableNumberGivesErrorText ==
    /\ (call.tool = "get_events" /\ ~ParseInt(call.limit).ok) => result.out = "error"
    /\ (call.tool = "get_pod_logs" /\ ~ParseInt(call.tail_lines).ok) => result.out = "error"

\* what C4 says of get_pod_logs
PodLogsUnparseableTailGivesErrorText ==
    (call.tool = "get_pod_logs" /\ ~ParseInt(call.tail_lines).ok) => result.out = "error"

----------------------------------------------------------------------------
(* Properties of get_events *)

\* the last-seen timestamp of an event, its event time without one; 0 when it
\* has neither
Timestamp(e) == IF e.last # 0 THEN e.last ELSE e.etime

\* the event a row was printed for
EventOfRow(row) == CHOOSE e \in Range(call.api.items) : e.reason = row.reason

Passing ==
    {e \in Range(call.api.items) :
        /\ call.resource_name = "" \/ e.name = call.resource_name
        /\ call.event_type = "all" \/ e.type = call.event_type}

Shown == {EventOfRow(result.rows[j]) : j \in 1..Len(result.rows)}

Limit == ParseInt(call.limit).val

\* the rows are the first Limit events, newest first, of the passing events
FirstNewestPassing ==
    /\ result.out \in {"report", "empty"}
    /\ Shown \subseteq Passing
    /\ Len(result.rows) = Cardinality(Shown)
    /\ Len(result.rows) = Min2(IF Limit < 0 THEN 0 ELSE Limit, Cardinality(Passing))
    /\ \A i, j \in 1..Len(result.rows) :
         i < j => Timestamp(EventOfRow(result.rows[i])) >= Timestamp(EventOfRow(result.rows[j]))
    /\ \A e \in Passing \ Shown : \A f \in Shown : Timestamp(e) <= Timestamp(f)

\* C5: get_events returns the first N (N = limit) events, in descending
\* timestamp order, of the events that pass the resource-name and event-type
\* filters; events the filters reject do not use up the limit.
C5_FirstNNewestOfFilteredEvents ==
    (call.tool = "get_events" /\ call.api.ok /\ ParseInt(call.limit).ok) => FirstNewestPassing

\* what C5 says of the namespaces whose events all have a timestamp or all
\* have none
FirstNNewestWhenKeysComparable ==
    (call.tool = "get_events" /\ call.api.ok /\ ParseInt(call.limit).ok
     /\ ~(\E e \in Range(call.api.items) : Timestamp(e) = 0
          /\ \E f \in Range(call.api.items) : Timestamp(f) # 0))
    => FirstNewestPassing

\* C6: for a namespace that mixes events with and without a timestamp,
\* get_events returns a report in which every event without a timestamp comes
\* after all events with one.
C6_TimestamplessEventsSortLast ==
    (/\ call.tool = "get_events" /\ call.api.ok /\ ParseInt(call.limit).ok
     /\ \E e \in Range(call.api.items) : Timestamp(e) = 0
     /\ \E e \in Range(call.api.items) : Timestamp(e) # 0)
    => /\ result.out \in {"report", "empty"}
       /\ \A i, j \in 1..Len(result.rows) :
            (Timestamp(EventOfRow(result.rows[i])) = 0
             /\ Timestamp(EventOfRow(result.rows[j])) # 0) => j < i

----------------------------------------------------------------------------
(* Properties of the policy tools *)

\* C7: the constraint kind looked up for a template is the template's name
\* with the first character of every hyphen-delimited segment in upper case,
\* the other characters unchanged and the hyphens removed.
C7_ConstraintKindCapitalizesSegments ==
    (/\ \/ (call.tool = "list_constraints" /\ call.constraint_kind = <<>>)
        \/ (call.tool = "check_policy_violations"
            /\ call.policy_engine \in {"gatekeeper", "both"})
     /\ call.gk.ok)
    => \A i \in 1..Len(call.gk.templates) :
          requests[i + 1] = [kind |-> "Constraint", of |-> DeclaredKind(call.gk.templates[i])]

\* what C7 says of the template unique-labels
UniqueLabelsLooksUpDeclaredKind ==
    (call.tool = "list_constraints" /\ call.constraint_kind = <<>> /\ call.gk.ok)
    => \A i \in 1..Len(call.gk.templates) :
          call.gk.templates[i] = Chars_unique_labels
          => requests[i + 1].of = <<"U", "n", "i", "q", "u", "e", "L", "a", "b", "e", "l", "s">>

GatekeeperRows == SelectSeq(result.rows, LAMBDA v : v.engine = "Gatekeeper")

KyvernoRows == SelectSeq(result.rows, LAMBDA v : v.engine = "Kyverno")

GatekeeperKinds == {"ConstraintTemplate", "Constraint"}

KyvernoKinds == {"ClusterPolicyReport", "PolicyReport"}

RequestedKinds == {requests[i].kind : i \in 1..Len(requests)}

\* C8: check_policy_violations returns the Gatekeeper violations followed by
\* the Kyverno violations with engine "both", the violations of the one engine
\* with "gatekeeper" or "kyverno", asks only the selected engines, and reports
\* as "Violations found" the number of rows.
C8_ViolationsOfSelectedEngines ==
    call.tool = "check_policy_violations" =>
        /\ result.rows = GatekeeperRows \o KyvernoRows
        /\ GatekeeperRows = IF call.policy_engine \in {"gatekeeper", "both"}
                            THEN check_gatekeeper_violations(call.namespace, call.gk)
                            ELSE <<>>
        /\ KyvernoRows = IF call.policy_engine \in {"kyverno", "both"}
                         THEN check_kyverno_violations(call.namespace, call.kv)
                         ELSE <<>>
        /\ (call.policy_engine = "gatekeeper" => RequestedKinds \cap KyvernoKinds = {})
        /\ (call.policy_engine = "kyverno" => RequestedKinds \cap GatekeeperKinds = {})
        /\ (result.out = "report"
            => (result.summary = <<Len(result.rows)>> /\ result.rows # <<>>))
        /\ result.out \in {"report", "no_violations"}

\* engine "both", two Gatekeeper violations and no failed Kyverno result:
\* two rows, both of Gatekeeper
C8_Witness ==
    /\ call.tool = "check_policy_violations"
    /\ call.policy_engine = "both"
    /\ call.kv.cprOk /\ call.kv.prOk
    /\ Len(check_gatekeeper_violations(call.namespace, call.gk)) = 2
    /\ Len(result.rows) = 2
    /\ \A j \in 1..2 : result.rows[j].engine = "Gatekeeper"
    /\ result.summary = <<2>>

----------------------------------------------------------------------------
(* Properties of get_app_deployments *)

\* the rows of one kind's items that app_name selects, in the order listed
ExpectedAppRows(type, api) ==
    LET kept == SelectSeq(api.items,
                          LAMBDA a : call.app_name = "" \/ a.name = call.app_name)
    IN [i \in 1..Len(kept) |->
          [type |-> type, name |-> kept[i].name, ns |-> kept[i].ns,
           status |-> IF HasReadyTrue(kept[i]) THEN "Ready" ELSE "Not Ready"]]

\* C9: when one of the App and ClusterApp lookups fails and the other returns
\* items, get_app_deployments returns exactly the other kind's items that
\* app_name selects, tagged with their kind, and no error.
C9_AppSourcesDegradeIndependently ==
    call.tool = "get_app_deployments" =>
        /\ result.out \in {"report", "empty"}
        /\ ((~call.appApi.ok /\ call.clusterAppApi.ok)
            => result.rows = ExpectedAppRows("ClusterApp", call.clusterAppApi))
        /\ ((call.appApi.ok /\ ~call.clusterAppApi.ok)
            => result.rows = ExpectedAppRows("App", call.appApi))

\* the App API is unavailable and the one ClusterApp is ready: one row
C9_Witness ==
    /\ call.tool = "get_app_deployments"
    /\ ~call.appApi.ok
    /\ call.clusterAppApi.ok
    /\ Len(call.clusterAppApi.items) = 1
    /\ HasReadyTrue(call.clusterAppApi.items[1])
    /\ result.out = "report"
    /\ Len(result.rows) = 1
    /\ result.rows[1].type = "ClusterApp"
    /\ result.rows[1].status = "Ready"

----------------------------------------------------------------------------
(* Properties of the rendered tables *)

\* C10: no tool writes a table header without a body row below it.
C10_NoHeaderOnlyTable == result.header => result.rows # <<>>

\* what C10 says of the tools other than the detail and the debug view
ListToolsWriteNoHeaderOnlyTable ==
    call.tool \notin {"get_kustomization", "debug_reconciliation"}
    => (result.header => result.rows # <<>>)

----------------------------------------------------------------------------
(* Properties of debug_reconciliation *)

\* the substrings of a reason that give a hint line, in the order of the lines
HintLines == <<[sub |-> Chars_Source, line |-> "source"],
               [sub |-> Chars_Validation, line |-> "manifest"],
               [sub |-> Chars_Health, line |-> "health"]>>

\* the hint lines C11 gives one condition
ExpectedHints(c) ==
    IF c.type = "Ready" /\ c.status = "False"
    THEN LET matching == SelectSeq(HintLines, LAMBDA h : Contains(h.sub, c.reason))
         IN [i \in 1..Len(matching) |-> matching[i].line]
    ELSE <<>>

DebugReport == call.tool = "debug_reconciliation" /\ result.out = "report"

\* C11: the recommendations of debug_reconciliation are, condition by
\* condition, one hint line per substring "Source", "Validation", "Health"
\* found in the reason of a Ready=False condition, in that order, and nothing
\* for any other condition; reason "ValidationFailed" gives the
\* manifest-syntax line alone.
C11_HintPerMatchingSubstring ==
    DebugReport =>
        LET conds == Conditions(call.api.obj)
        IN /\ result.hints = Concat([i \in 1..Len(conds) |-> ExpectedHints(conds[i])])
           /\ (conds = <<Cond("Ready", "False", Chars_ValidationFailed)>>
               => result.hints = <<"manifest">>)
           /\ ((\A i \in 1..Len(conds) : ~(conds[i].type = "Ready" /\ conds[i].status = "False"))
               => result.hints = <<>>)

\* a Ready=False condition whose reason holds two of the substrings, after a
\* condition that is not Ready=False: two lines, source before health
C11_Witness ==
    /\ DebugReport
    /\ Len(Conditions(call.api.obj)) = 2
    /\ Conditions(call.api.obj)[1].status = "True"
    /\ Conditions(call.api.obj)[2] = Cond("Ready", "False", Chars_SourceHealth)
    /\ result.hints = <<"source", "health">>

\* C12: a resource_type that is none of kustomization, gitrepository,
\* helmrelease in any letter case gives the text naming the accepted types,
\* without an exception and before any request to the cluster API.
C12_UnknownTypeRejectedBeforeLookup ==
    (call.tool = "debug_reconciliation"
     /\ lower(call.resource_type)
          \notin {Chars_kustomization, Chars_gitrepository, Chars_helmrelease})
    => (result.out = "unknown_type" /\ result.exc = "none" /\ requests = <<>>)

\* resource type "pod" while the lookup of the named object would fail
C12_Witness ==
    /\ call.tool = "debug_reconciliation"
    /\ call.resource_type = <<"p", "o", "d">>
    /\ ~call.api.ok
    /\ result.out = "unknown_type"
    /\ requests = <<>>

----------------------------------------------------------------------------
(* Properties of the namespace filter of check_policy_violations *)

PolicyCall == call.tool = "check_policy_violations"

GatekeeperSelected == call.policy_engine \in {"gatekeeper", "both"}

KyvernoSelected == call.policy_engine \in {"kyverno", "both"}

\* C13: with a namespace given every violation returned, of either engine,
\* is about a resource of that namespace; without one the violations of all
\* namespaces are returned.
C13_ViolationsOfTheNamespaceOnly ==
    PolicyCall =>
        /\ (call.namespace # ""
            => \A i \in 1..Len(result.rows) : result.rows[i].ns = call.namespace)
        /\ (call.namespace = ""
            => \A n \in Namespaces :
                  LET narrowed == check_policy_violations(n, call.policy_engine,
                                                          call.gk, call.kv).rows
                  IN {v \in Range(narrowed) : v.ns = n} \subseteq Range(result.rows))

\* what C13 says of the Gatekeeper violations and of the results of the
\* namespaced reports: the rows outside the namespace are results of
\* ClusterPolicyReport objects
OnlyClusterReportRowsLeaveTheNamespace ==
    (PolicyCall /\ call.namespace # "")
    => /\ \A i \in 1..Len(GatekeeperRows) : GatekeeperRows[i].ns = call.namespace
       /\ \A i \in 1..Len(KyvernoRows) :
             KyvernoRows[i].ns # call.namespace
             => (call.kv.cprOk
                 /\ \E r \in Range(ReportResults(call.kv.cpr)) :
                       KyvernoViolation(r) = KyvernoRows[i])

----------------------------------------------------------------------------
(* Properties of the Gatekeeper violation list *)

\* the embedded violation entries of one constraint that pass the namespace
\* filter, as violations of the constraint
EmbeddedViolations(constraint, namespace) ==
    LET passing == SelectSeq(constraint.violations,
                             LAMBDA v : namespace = "" \/ v.ns = namespace)
    IN [j \in 1..Len(passing) |->
           [engine |-> "Gatekeeper", policy |-> constraint.name,
            resource |-> passing[j].name, ns |-> passing[j].ns]]

\* the same for the constraint instances of one discovered kind
KindViolations(entry, namespace) ==
    IF entry.ok
    THEN Concat([i \in 1..Len(entry.items) |-> EmbeddedViolations(entry.items[i], namespace)])
    ELSE <<>>

\* and for the discovered kinds, in the order of their templates
DiscoveredViolations(gk, namespace) ==
    Concat([i \in 1..Len(gk.kinds) |-> KindViolations(gk.kinds[i], namespace)])

GatekeeperAnswered == PolicyCall /\ GatekeeperSelected /\ call.gk.ok

\* C14: the Gatekeeper violations are the embedded violation entries of the
\* constraint instances of the discovered kinds that pass the namespace
\* filter, each once, with engine "Gatekeeper" and the constraint's name as
\* policy, whatever status.totalViolations holds.
C14_EveryEmbeddedViolationListedOnce ==
    GatekeeperAnswered => GatekeeperRows = DiscoveredViolations(call.gk, call.namespace)

\* what C14 says when every template is unique-labels and every constraint
\* has a positive status.totalViolations
EmbeddedViolationsOfCountedConstraintsListedOnce ==
    (/\ GatekeeperAnswered
     /\ \A i \in 1..Len(call.gk.templates) : call.gk.templates[i] = Chars_unique_labels
     /\ \A i \in 1..Len(call.gk.kinds) :
           \A j \in 1..Len(call.gk.kinds[i].items) : call.gk.kinds[i].items[j].total > 0)
    => GatekeeperRows = DiscoveredViolations(call.gk, call.namespace)

----------------------------------------------------------------------------
(* Properties of the failure isolation of check_policy_violations *)

\* the violations the call returns for other answers of the cluster
RowsFor(policy_engine, gk, kv) ==
    check_policy_violations(call.namespace, policy_engine, gk, kv).rows

\* Gatekeeper with the one template i
OnlyTemplate(gk, i) == [gk EXCEPT !.templates = <<gk.templates[i]>>]

NoClusterReports(kv) == [kv EXCEPT !.cprOk = FALSE, !.cpr = <<>>]

NoNamespacedReports(kv) == [kv EXCEPT !.prOk = FALSE, !.pr = <<>>]

NoKyverno(kv) == NoClusterReports(NoNamespacedReports(kv))

\* C15: every source of check_policy_violations gives the violations it gives
\* alone, whatever fails in the other sources: each template's constraint
\* kind among the templates, Gatekeeper and Kyverno between them, the
\* ClusterPolicyReport and the PolicyReport objects within Kyverno.
C15_FailuresIsolatedPerSource ==
    PolicyCall =>
        /\ (GatekeeperAnswered
            => GatekeeperRows
               = Concat([i \in 1..Len(call.gk.templates) |->
                           RowsFor("gatekeeper", OnlyTemplate(call.gk, i), call.kv)]))
        /\ (GatekeeperSelected
            => GatekeeperRows = RowsFor("gatekeeper", call.gk, NoKyverno(call.kv)))
        /\ (KyvernoSelected
            => /\ KyvernoRows = RowsFor("kyverno", NoGatekeeper, call.kv)
               /\ KyvernoRows = RowsFor("kyverno", call.gk, NoNamespacedReports(call.kv))
                                \o RowsFor("kyverno", call.gk, NoClusterReports(call.kv)))

\* the lookup of the first template's kind fails and the second template's
\* constraint has a violation; the ClusterPolicyReport objects cannot be read
\* and a PolicyReport has a failed result: one row of each engine
C15_Witness ==
    /\ PolicyCall
    /\ call.policy_engine = "both"
    /\ call.gk.ok
    /\ Len(call.gk.templates) = 2
    /\ ~LookupKind(call.gk.kinds, requests[2].of).ok
    /\ ~call.kv.cprOk
    /\ call.kv.prOk
    /\ Len(GatekeeperRows) = 1
    /\ Len(KyvernoRows) = 1

----------------------------------------------------------------------------
(* Properties of the summary of get_gitops_status *)

GitopsReport == call.tool = "get_gitops_status" /\ result.out = "report"

\* C16: in the report of get_gitops_status the Ready, Failed and Suspended
\* counts add up to Total, Total is the number of Kustomizations listed, and
\* the health line is Healthy exactly when the Failed count is 0.
C16_CountsPartitionTheKustomizations ==
    GitopsReport =>
        /\ Len(result.summary) = 4
        /\ result.summary[1] + result.summary[2] + result.summary[3] = result.summary[4]
        /\ result.summary[4] = Len(call.api.items)
        /\ result.hints \in {<<"Healthy">>, <<"Issues Detected">>}
        /\ (result.hints = <<"Healthy">> <=> result.summary[2] = 0)

\* a suspended Kustomization with a Ready=True condition beside a failed one
C16_Witness ==
    /\ GitopsReport
    /\ Len(call.api.items) = 2
    /\ \E i \in 1..2 : SuspendTrue(call.api.items[i]) /\ HasReadyTrue(call.api.items[i])
    /\ result.summary = <<0, 1, 1, 2>>
    /\ result.hints = <<"Issues Detected">>

----------------------------------------------------------------------------
(* Properties of list_machines *)

\* the cluster name C17 gives a machine: its cluster-name label, empty for a
\* machine without labels or without that label
ClusterNameOf(m) == IF m.hasLabels /\ m.label # "absent" THEN m.label ELSE ""

\* the machines C17 lists, in the order of the API
ExpectedMachines ==
    SelectSeq(call.api.items,
              LAMBDA m : call.cluster_name = "" \/ ClusterNameOf(m) = call.cluster_name)

MachinesListed ==
    /\ result.exc = "none"
    /\ result.out \in {"report", "empty"}
    /\ Len(result.rows) = Len(ExpectedMachines)
    /\ \A i \in 1..Len(result.rows) :
          /\ result.rows[i].name = ExpectedMachines[i].name
          /\ result.rows[i].cluster = ClusterNameOf(ExpectedMachines[i])

\* C17: list_machines does not raise for any list of machines; a machine
\* without labels or without the cluster-name label has the empty cluster
\* name, and the machines listed are those whose cluster name equals
\* cluster_name, all machines without cluster_name.
C17_MachinesWithoutLabelsAreListed ==
    (call.tool = "list_machines" /\ call.api.ok) => MachinesListed

\* what C17 says of the lists in which every machine has labels
MachinesWithLabelsListedByClusterName ==
    (/\ call.tool = "list_machines"
     /\ call.api.ok
     /\ \A i \in 1..Len(call.api.items) : call.api.items[i].hasLabels)
    => MachinesListed

====
